---- MODULE Spec2Model ----
(***************************************************************************)
(* Model of flopy/mf6/data/mfdatautil.py: the fixed-shape index iterator   *)
(* (ArrayIndexIter), the nested-list utilities of ArrayUtil (next_item,    *)
(* multi_dim_list_size, first_item, has_one_item), the line tokenizer      *)
(* (split_data_line, clean_numeric), find_keyword, the token reader of a   *)
(* file (FileIter) and the template generators (ArrayTemplateGenerator,    *)
(* ListTemplateGenerator).                                                 *)
(*                                                                         *)
(* Python strings are sequences of one-character strings, Python lists and *)
(* tuples are sequences.  A nested value tree is a record                  *)
(*   [k |-> "s", v |-> n,  e |-> <<>>]   a scalar n                        *)
(*   [k |-> "n", v |-> 0,  e |-> <<>>]   None                              *)
(*   [k |-> "l", v |-> 0,  e |-> <<t1, ..., tn>>]   a list                 *)
(***************************************************************************)
EXTENDS Integers, Sequences, FiniteSets, TLC

VARIABLES
    array_shape,        \* ArrayIndexIter.array_shape
    current_location,   \* ArrayIndexIter.current_location
    first_item,         \* ArrayIndexIter.first_item
    current_index,      \* ArrayIndexIter.current_index
    yielded,            \* values returned by __next__ so far, in order
    stops,              \* number of StopIteration raised by __next__ so far
    pc,                 \* "idle" | "call" | "done": position of the caller of a pure function
    op,                 \* name of the function that was called
    input,              \* arguments of the call
    clean_line,         \* split_data_line: local clean_line when the fix-up loop starts
    output,             \* outcome of the call: [status, val]
    file_lines,         \* FileIter: the lines of the file at file_path
    file_open,          \* FileIter: open(file_path, 'r') succeeded
    file_pos,           \* FileIter._fd: number of lines readline has consumed
    reads,              \* FileIter._fd: parity of the number of readline calls
    eof,                \* FileIter.eof
    current_data,       \* FileIter._current_data
    data_index,         \* FileIter._data_index
    fpc,                \* FileIter.__next__: "idle" between calls, "loop" inside
    tokens_out,         \* values returned by FileIter.__next__ so far, in order
    file_stopped        \* FileIter.__next__ has raised StopIteration

vars == <<array_shape, current_location, first_item, current_index, yielded,
          stops, pc, op, input, clean_line, output, file_lines, file_open,
          file_pos, reads, eof, current_data, data_index, fpc, tokens_out,
          file_stopped>>

file_vars == <<file_lines, file_open, file_pos, reads, eof, current_data,
               data_index, fpc, tokens_out, file_stopped>>

iter_vars == <<array_shape, current_location, first_item, current_index,
               yielded, stops>>
call_vars == <<pc, op, input, clean_line, output>>

\* ------------------------------------------------------------------ bounds
MaxRank == 3        \* largest rank of an array shape
MaxDim == 3         \* largest size of one dimension
MaxStops == 2       \* __next__ calls made after the iterator is exhausted
MaxNodes == 5       \* largest number of nodes (leaves and lists) of a tree
MaxLineLen == 5     \* longest enumerated input line of split_data_line
MaxTextLen == 5     \* longest enumerated input text of clean_numeric
MaxToks == 3        \* most tokens in an enumerated token list of find_keyword
MaxDictSize == 2    \* most keys in an enumerated keyword dictionary
MaxFileLines == 2   \* most lines of an enumerated file of FileIter
MaxFileLineLen == 2 \* longest line of an enumerated file of FileIter
MaxLayers == 3      \* largest size of one dimension of a resolved template shape
MaxStorageList == 3 \* longest enumerated data_storage_type_list
MaxBound == 2       \* largest enumerated maxbound
MaxPeriods == 2     \* longest enumerated stress_periods list

\* ----------------------------------------------------------------- helpers
SeqsUpTo(S, n) == UNION {[1..m -> S] : m \in 0..n}

RECURSIVE Prod(_)
Prod(s) == IF s = <<>> THEN 1 ELSE Head(s) * Prod(Tail(s))

NoCall == [status |-> "none", val |-> 0]

\* =================================================================
\* ArrayIndexIter                                   (source lines 582-615)
\* =================================================================
Shapes == UNION {[1..r -> 1..MaxDim] : r \in 1..MaxRank}

\* __init__: all-zero location, first_item set, index on the last axis
ArrayIndexIter_init(shape) ==
    /\ array_shape = shape
    /\ current_location = [i \in 1..Len(shape) |-> 0]
    /\ first_item = TRUE
    /\ current_index = Len(shape) - 1

\* the value __next__ returns: a tuple for rank > 1, else the bare integer
ReturnLocation(loc) ==
    IF Len(loc) > 1 THEN [kind |-> "tuple", val |-> loc]
                    ELSE [kind |-> "int", val |-> loc[1]]

\* variant of the while loop that steps to the previous axis without
\* resetting the exhausted one
RECURSIVE AdvanceLoop_NoReset(_, _, _)
AdvanceLoop_NoReset(loc, idx, shape) ==
    IF idx >= 0
    THEN IF loc[idx + 1] < shape[idx + 1] - 1
         THEN [found |-> TRUE,
               loc |-> [loc EXCEPT ![idx + 1] = @ + 1],
               idx |-> Len(loc) - 1]
         ELSE AdvanceLoop_NoReset(loc, idx - 1, shape)
    ELSE [found |-> FALSE, loc |-> loc, idx |-> idx]

\* variant of the while loop that points the index back at the last axis when
\* every axis is exhausted
RECURSIVE AdvanceLoop_Wrap(_, _, _)
AdvanceLoop_Wrap(loc, idx, shape) ==
    IF idx >= 0
    THEN IF loc[idx + 1] < shape[idx + 1] - 1
         THEN [found |-> TRUE,
               loc |-> [loc EXCEPT ![idx + 1] = @ + 1],
               idx |-> Len(loc) - 1]
         ELSE AdvanceLoop_Wrap([loc EXCEPT ![idx + 1] = 0], idx - 1, shape)
    ELSE [found |-> FALSE, loc |-> loc, idx |-> Len(loc) - 1]

\* the while loop of __next__ (python index idx is TLA+ index idx + 1)
RECURSIVE AdvanceLoop(_, _, _)
AdvanceLoop(loc, idx, shape) ==
    IF idx >= 0
    THEN IF loc[idx + 1] < shape[idx + 1] - 1
         THEN [found |-> TRUE,
               loc |-> [loc EXCEPT ![idx + 1] = @ + 1],
               idx |-> Len(loc) - 1]
         ELSE AdvanceLoop([loc EXCEPT ![idx + 1] = 0], idx - 1, shape)
    ELSE [found |-> FALSE, loc |-> loc, idx |-> idx]

ArrayIndexIter_next ==
    /\ pc = "idle"
    /\ stops < MaxStops
    /\ \/ /\ first_item
          /\ first_item' = FALSE
          /\ yielded' = Append(yielded, ReturnLocation(current_location))
          /\ UNCHANGED <<current_location, current_index, stops>>
       \/ /\ ~first_item
          /\ LET r == AdvanceLoop(current_location, current_index, array_shape)
             IN  /\ current_location' = r.loc
                 /\ current_index' = r.idx
                 /\ IF r.found
                    THEN /\ yielded' = Append(yielded, ReturnLocation(r.loc))
                         /\ UNCHANGED stops
                    ELSE /\ stops' = stops + 1
                         /\ UNCHANGED yielded
          /\ UNCHANGED first_item
    /\ UNCHANGED <<array_shape, call_vars, file_vars>>

\* None where a list is expected (FileIter._current_data, line 657)
NoData == [none |-> TRUE, toks |-> <<>>]
SomeData(toks) == [none |-> FALSE, toks |-> toks]

\* no FileIter exists in the runs of the other classes and functions
FileUnused ==
    /\ file_lines = <<>>
    /\ file_open = FALSE
    /\ file_pos = 0
    /\ reads = 0
    /\ eof = TRUE
    /\ current_data = NoData
    /\ data_index = 0
    /\ fpc = "idle"
    /\ tokens_out = <<>>
    /\ file_stopped = FALSE

InitIter ==
    /\ FileUnused
    /\ \E shape \in Shapes : ArrayIndexIter_init(shape)
    /\ yielded = <<>>
    /\ stops = 0
    /\ pc = "idle"
    /\ op = "none"
    /\ input = <<>>
    /\ clean_line = <<>>
    /\ output = NoCall

NextIter == ArrayIndexIter_next

SpecIter == InitIter /\ [][NextIter]_vars

\* ------------------------------------------------------------------
\* row-major enumeration, stated directly: item n (from 0) of shape S has
\* component i equal to (n \div (S[i+1] * ... * S[R])) % S[i]
RowMajor(shape, n) ==
    [i \in 1..Len(shape) |->
        (n \div Prod(SubSeq(shape, i + 1, Len(shape)))) % shape[i]]

ExpectedYield(shape, n) ==
    IF Len(shape) > 1 THEN [kind |-> "tuple", val |-> RowMajor(shape, n)]
                      ELSE [kind |-> "int", val |-> n]

\* C1: iterating a fresh ArrayIndexIter(S) yields the coordinates of S in
\* row-major order, starting at all-zero: every yielded item is the next item
\* of the row-major enumeration (a tuple for rank > 1, a bare integer for
\* rank 1), each component within 0..S[i]-1, all items pairwise distinct, and
\* when completion is signalled exactly Prod(S) items were yielded, the last
\* being the all-(size-1) coordinate.
C1_RowMajorEnumeration ==
    /\ Len(yielded) <= Prod(array_shape)
    /\ \A k \in 1..Len(yielded) :
          /\ yielded[k] = ExpectedYield(array_shape, k - 1)
          /\ yielded[k].kind = IF Len(array_shape) = 1 THEN "int" ELSE "tuple"
          /\ IF yielded[k].kind = "int"
             THEN yielded[k].val \in 0..(array_shape[1] - 1)
             ELSE \A i \in 1..Len(array_shape) :
                     yielded[k].val[i] \in 0..(array_shape[i] - 1)
    /\ \A j, k \in 1..Len(yielded) : j # k => yielded[j] # yielded[k]
    /\ (Len(yielded) >= 1 /\ Len(array_shape) > 1)
          => yielded[1].val = [i \in 1..Len(array_shape) |-> 0]
    /\ (Len(yielded) >= 1 /\ Len(array_shape) = 1) => yielded[1].val = 0
    /\ stops >= 1 =>
          /\ Len(yielded) = Prod(array_shape)
          /\ yielded[Len(yielded)] =
                ReturnLocation([i \in 1..Len(array_shape) |-> array_shape[i] - 1])

\* a rank-3 shape with more than one item per axis iterated to completion
C1_Witness ==
    /\ Len(array_shape) = 3
    /\ \A i \in 1..3 : array_shape[i] >= 2
    /\ stops = 1
    /\ Len(yielded) = Prod(array_shape)

\* a rank-1 shape iterated to completion yields bare integers
C1_WitnessRank1 ==
    /\ Len(array_shape) = 1 /\ array_shape[1] = 3 /\ stops = 1
    /\ yielded[3] = [kind |-> "int", val |-> 2]

\* C14: once an ArrayIndexIter has signalled completion, every later call of
\* next on the same instance signals completion again and yields nothing: the
\* iterator neither wraps around nor restarts.
C14_StaysExhausted ==
    [][stops >= 1 => (yielded' = yielded /\ stops' = stops + 1)]_vars

\* a rank-2 iterator with several items per axis that was called twice more
\* after its last item
C14_Witness ==
    /\ array_shape = <<2, 3>>
    /\ stops = 2
    /\ Len(yielded) = 6

\* =================================================================
\* Nested value trees and the ArrayUtil list utilities
\*                                                  (source lines 378-472)
\* =================================================================
Scalars == {1, 2}       \* values of the integer leaves

PyNone == [k |-> "n", v |-> 0, e |-> <<>>]
PyScalar(n) == [k |-> "s", v |-> n, e |-> <<>>]
PyList(elems) == [k |-> "l", v |-> 0, e |-> elems]
PyBool(b) == [k |-> "b", v |-> b, e |-> <<>>]

\* isinstance(x, list)
IsList(x) == x.k = "l"

Leaves == {PyNone} \cup {PyScalar(n) : n \in Scalars}

\* all trees with exactly n nodes (a node is a leaf or a list)
RECURSIVE TreesOfSize(_), Forests(_)
TreesOfSize(n) ==
    IF n = 1 THEN Leaves \cup {PyList(<<>>)}
             ELSE {PyList(f) : f \in Forests(n - 1)}
Forests(n) ==
    IF n = 0 THEN {<<>>}
    ELSE UNION {{<<t>> \o f : t \in TreesOfSize(m), f \in Forests(n - m)} :
                   m \in 1..n}

Trees == UNION {TreesOfSize(n) : n \in 1..MaxNodes}

Return(v) == [status |-> "ok", val |-> v]
Raise(exc) == [status |-> exc, val |-> 0]

\* ---- next_item (lines 447-472): the records of one complete run, each
\* record the 4-tuple <<item, end_of_list, new_list, nesting_change>>
RECURSIVE next_item(_, _, _, _), next_item_loop(_, _, _)

\* variant of the loop that stops one element early
next_item_loop_DropLast(items, list_size, nesting_change) ==
    IF list_size >= Len(items) THEN <<>>
    ELSE LET item == items[list_size]
         IN  IF IsList(item)
             THEN next_item(item, list_size = 1, nesting_change + 1,
                            list_size = Len(items))
                  \o next_item_loop(items, list_size + 1,
                                    -(nesting_change + 1))
             ELSE <<<<item, list_size = Len(items), list_size = 1,
                      nesting_change>>>>
                  \o next_item_loop(items, list_size + 1, 0)

\* the for loop of lines 457-472; list_size counts from 1
next_item_loop(items, list_size, nesting_change) ==
    IF list_size > Len(items) THEN <<>>
    ELSE LET item == items[list_size]
         IN  IF IsList(item)
             THEN next_item(item, list_size = 1, nesting_change + 1,
                            list_size = Len(items))
                  \o next_item_loop(items, list_size + 1,
                                    -(nesting_change + 1))
             ELSE <<<<item, list_size = Len(items), list_size = 1,
                      nesting_change>>>>
                  \o next_item_loop(items, list_size + 1, 0)

next_item(current_list, new_list, nesting_change, end_of_list) ==
    IF ~IsList(current_list)
    THEN <<<<current_list, end_of_list, new_list, nesting_change>>>>
    ELSE next_item_loop(current_list.e, 1, nesting_change)

\* next_item(tree) with the default arguments of line 448
next_item_default(tree) == next_item(tree, TRUE, 0, TRUE)

\* ---- multi_dim_list_size (lines 424-433)
\* "for item, last_item in ...": each record is unpacked into two names,
\* which raises ValueError unless the record has exactly two components
RECURSIVE CountLoop(_, _)
CountLoop(recs, item_num) ==
    IF recs = <<>> THEN Return(item_num)
    ELSE IF Len(Head(recs)) # 2 THEN Raise("ValueError")
    ELSE CountLoop(Tail(recs), item_num + 1)

multi_dim_list_size(current_list) ==
    IF current_list = PyNone THEN Return(0)
    ELSE IF ~IsList(current_list) THEN Return(1)
    ELSE CountLoop(next_item_default(current_list), 0)

\* ---- first_item (lines 435-445): the loop returns in its first iteration;
\* an empty list falls off the end of the function, which returns None
RECURSIVE ArrayUtil_first_item(_)
ArrayUtil_first_item(current_list) ==
    IF ~IsList(current_list) THEN current_list
    ELSE IF current_list.e = <<>> THEN PyNone
    ELSE LET item == current_list.e[1]
         IN  IF IsList(item) THEN ArrayUtil_first_item(item) ELSE item

\* ---- has_one_item (lines 378-389)
\* x != 0 for a list x is the boolean True
NotEqualZero(x) == IF IsList(x) THEN PyBool(TRUE) ELSE PyBool(x.v # 0)

\* len(x): defined for lists only, TypeError for booleans and numbers
PyLen(x) == IF IsList(x) THEN Return(Len(x.e)) ELSE Raise("TypeError")

has_one_item(current_list) ==
    IF ~IsList(current_list) THEN Return(TRUE)
    ELSE IF Len(current_list.e) # 1 THEN Return(FALSE)
    ELSE IF IsList(current_list.e[1])
         THEN LET n == PyLen(NotEqualZero(current_list.e[1]))   \* line 387
              IN  IF n.status # "ok" THEN n
                  ELSE IF n.val # 0 THEN Return(FALSE) ELSE Return(TRUE)
         ELSE Return(TRUE)

\* ---- the caller: one call of one utility on one tree
Call_next_item ==
    /\ pc = "call"
    /\ pc' = "done"
    /\ op' = "next_item"
    /\ output' = Return(next_item_default(input))
    /\ UNCHANGED <<input, clean_line, iter_vars, file_vars>>

Call_multi_dim_list_size ==
    /\ pc = "call"
    /\ pc' = "done"
    /\ op' = "multi_dim_list_size"
    /\ output' = multi_dim_list_size(input)
    /\ UNCHANGED <<input, clean_line, iter_vars, file_vars>>

Call_first_item ==
    /\ pc = "call"
    /\ pc' = "done"
    /\ op' = "first_item"
    /\ output' = Return(ArrayUtil_first_item(input))
    /\ UNCHANGED <<input, clean_line, iter_vars, file_vars>>

Call_has_one_item ==
    /\ pc = "call"
    /\ pc' = "done"
    /\ op' = "has_one_item"
    /\ output' = has_one_item(input)
    /\ UNCHANGED <<input, clean_line, iter_vars, file_vars>>

\* the iterator fields are not used by the pure functions
IterUnused ==
    /\ array_shape = <<1>>
    /\ current_location = <<0>>
    /\ first_item = TRUE
    /\ current_index = 0
    /\ yielded = <<>>
    /\ stops = 0

InitTree ==
    /\ IterUnused
    /\ FileUnused
    /\ pc = "call"
    /\ op = "none"
    /\ input \in Trees
    /\ clean_line = <<>>
    /\ output = NoCall

NextTree ==
    \/ Call_next_item
    \/ Call_multi_dim_list_size
    \/ Call_first_item
    \/ Call_has_one_item

SpecTree == InitTree /\ [][NextTree]_vars

\* ------------------------------------------------------------------
\* direct recursive definitions the claims are stated with
RECURSIVE SumSeq(_)
SumSeq(s) == IF s = <<>> THEN 0 ELSE Head(s) + SumSeq(Tail(s))

RECURSIVE ConcatAll(_)
ConcatAll(ss) == IF ss = <<>> THEN <<>> ELSE Head(ss) \o ConcatAll(Tail(ss))

\* number of scalar leaves: 0 for None, 1 for a scalar, the sum for a list
RECURSIVE LeafCount(_)
LeafCount(t) ==
    IF t = PyNone THEN 0
    ELSE IF ~IsList(t) THEN 1
    ELSE SumSeq([i \in 1..Len(t.e) |-> LeafCount(t.e[i])])

\* depth-first, left-to-right sequence of the leaves of a tree
RECURSIVE Flatten(_)
Flatten(t) ==
    IF ~IsList(t) THEN <<t>>
    ELSE ConcatAll([i \in 1..Len(t.e) |-> Flatten(t.e[i])])

\* nesting depth of every leaf, in the order of Flatten, where d is the depth
\* of t itself; the elements of the top-level list are at depth 0, so the
\* top-level list is passed with d = -1
RECURSIVE LeafDepths(_, _)
LeafDepths(t, d) ==
    IF ~IsList(t) THEN <<d>>
    ELSE ConcatAll([i \in 1..Len(t.e) |-> LeafDepths(t.e[i], d + 1)])

Values(recs) == [i \in 1..Len(recs) |-> recs[i][1]]
Deltas(recs) == [i \in 1..Len(recs) |-> recs[i][4]]

Called(name) == pc = "done" /\ op = name

\* C2: multi_dim_list_size(T) returns the number of scalar leaves of T as
\* given by the direct recursive count (0 for None, 1 for a bare scalar, the
\* sum over the elements for a list).
C2_SizeIsLeafCount ==
    Called("multi_dim_list_size") => output = Return(LeafCount(input))

\* C3: the values of the records of one complete run of next_item(tree) are
\* the depth-first, left-to-right flattening of the tree: every leaf exactly
\* once, in order, and nothing for an empty sub-list.
C3_NextItemFlattens ==
    Called("next_item") =>
        /\ output.status = "ok"
        /\ Values(output.val) = Flatten(input)

\* a ragged tree with an empty sub-list, a nested leaf and a top-level leaf
C3_Witness ==
    /\ Called("next_item")
    /\ input = PyList(<<PyList(<<PyScalar(1)>>), PyList(<<>>), PyScalar(2)>>)
    /\ Values(output.val) = <<PyScalar(1), PyScalar(2)>>

\* C4: in the records of next_item(tree) of a list tree, the nesting_delta of
\* each record after the first is the depth of its leaf minus the depth of the
\* previously yielded leaf, and the first record's nesting_delta is the number
\* of levels entered below the top-level list to reach the first leaf.
C4_DeltaIsDepthChange ==
    (Called("next_item") /\ IsList(input)) =>
        LET d == LeafDepths(input, -1)
            nd == Deltas(output.val)
        IN  /\ Len(nd) = Len(d)
            /\ \A i \in 1..Len(nd) :
                  nd[i] = IF i = 1 THEN d[1] ELSE d[i] - d[i - 1]

\* C8: first_item(tree) of a list tree with at least one leaf is the value of
\* the first record next_item(tree) yields (the left-most leaf); of a bare
\* scalar it is the scalar itself.
C8_FirstItemIsLeftmostLeaf ==
    Called("first_item") =>
        /\ output.status = "ok"
        /\ ~IsList(input) => output.val = input
        /\ (IsList(input) /\ Flatten(input) # <<>>) =>
              /\ output.val = next_item_default(input)[1][1]
              /\ output.val = Flatten(input)[1]

\* a single-element list examined one level down: its element is a scalar
\* or a list that is not empty
NonEmptyOneLevelDown(t) ==
    /\ IsList(t)
    /\ Len(t.e) = 1
    /\ (IsList(t.e[1]) => t.e[1].e # <<>>)

\* C9: has_one_item(tree) returns a boolean: true for a bare scalar, true for
\* a single-element sequence whose element is non-empty one level down, false
\* for a sequence whose length is not 1.
C9_HasOneItemBoolean ==
    Called("has_one_item") =>
        /\ output.status = "ok"
        /\ output.val \in BOOLEAN
        /\ ~IsList(input) => output.val = TRUE
        /\ NonEmptyOneLevelDown(input) => output.val = TRUE
        /\ (IsList(input) /\ Len(input.e) # 1) => output.val = FALSE

\* =================================================================
\* split_data_line                                  (source lines 481-530)
\* =================================================================
quote_list == {"'", "\""}                        \* line 483
delimiter_list == {<<",">>, <<"\t">>, <<" ">>}   \* keys of the dict, line 484
Whitespace == {" ", "\t", "\n"}    \* the whitespace characters of the inputs

Last(s) == s[Len(s)]

\* str.strip()
RECURSIVE LStrip(_)
LStrip(s) == IF s # <<>> /\ Head(s) \in Whitespace THEN LStrip(Tail(s)) ELSE s
RECURSIVE RStrip(_)
RStrip(s) ==
    IF s # <<>> /\ Last(s) \in Whitespace
    THEN RStrip(SubSeq(s, 1, Len(s) - 1)) ELSE s
Strip(s) == RStrip(LStrip(s))

\* str.split(): runs of whitespace separate tokens, no empty token
RECURSIVE SplitWSLoop(_, _, _)
SplitWSLoop(s, cur, acc) ==
    IF s = <<>> THEN (IF cur = <<>> THEN acc ELSE Append(acc, cur))
    ELSE IF Head(s) \in Whitespace
         THEN SplitWSLoop(Tail(s), <<>>,
                          IF cur = <<>> THEN acc ELSE Append(acc, cur))
         ELSE SplitWSLoop(Tail(s), Append(cur, Head(s)), acc)
SplitWS(s) == SplitWSLoop(s, <<>>, <<>>)

\* str.split(delimiter): every occurrence separates, empty fields are kept
RECURSIVE SplitOnLoop(_, _, _, _)
SplitOnLoop(s, d, cur, acc) ==
    IF s = <<>> THEN Append(acc, cur)
    ELSE IF Head(s) = d
         THEN SplitOnLoop(Tail(s), d, <<>>, Append(acc, cur))
         ELSE SplitOnLoop(Tail(s), d, Append(cur, Head(s)), acc)
SplitOn(s, d) == SplitOnLoop(s, d, <<>>, <<>>)

\* the orders in which "for delimiter in delimiter_list" can visit the keys
\* of the dict: insertion order where dicts are ordered, any order otherwise
DelimOrders ==
    {o \in [1..3 -> {",", "\t", " "}] : \A i, j \in 1..3 : i # j => o[i] # o[j]}

\* variant of the delimiter search that also takes a delimiter whose split is
\* only as long as the best so far
RECURSIVE ChooseDelimiter_AllowTie(_, _, _, _, _)
ChooseDelimiter_AllowTie(stripped, order, i, max_split_size, max_split_type) ==
    IF i > Len(order) THEN max_split_type
    ELSE LET alt_split == SplitOn(stripped, order[i])
         IN  IF Len(alt_split) >= max_split_size
             THEN ChooseDelimiter_AllowTie(stripped, order, i + 1,
                                           Len(alt_split), order[i])
             ELSE ChooseDelimiter_AllowTie(stripped, order, i + 1,
                                           max_split_size, max_split_type)

\* lines 491-495; "None" stands for max_split_type = None
RECURSIVE ChooseDelimiter(_, _, _, _, _)
ChooseDelimiter(stripped, order, i, max_split_size, max_split_type) ==
    IF i > Len(order) THEN max_split_type
    ELSE LET alt_split == SplitOn(stripped, order[i])
         IN  IF Len(alt_split) > max_split_size
             THEN ChooseDelimiter(stripped, order, i + 1,
                                  Len(alt_split), order[i])
             ELSE ChooseDelimiter(stripped, order, i + 1,
                                  max_split_size, max_split_type)

\* lines 485-497: the value of clean_line when the fix-up loop starts
CleanLine(line, external_file, order) ==
    LET ws_split == SplitWS(Strip(line))
    IN  IF external_file
        THEN LET max_split_type ==
                     ChooseDelimiter(Strip(line), order, 1, Len(ws_split), "None")
             IN  IF max_split_type # "None"
                 THEN SplitOn(Strip(line), max_split_type)
                 ELSE ws_split
        ELSE ws_split

\* '{} {}'.format(a, b)
FormatPair(a, b) == a \o <<" ">> \o b

SetLast(arr, v) == [arr EXCEPT ![Len(arr)] = v]

\* variant of the inner loop that keeps the trailing quote of the closing token
RECURSIVE QuoteLoop_KeepQuote(_, _, _)
QuoteLoop_KeepQuote(cl, index, arr) ==
    IF index <= Len(cl)
    THEN LET j == index + 1
         IN  IF j <= Len(cl)
             THEN LET item == cl[j]
                  IN  IF item = <<>>
                      THEN [status |-> "IndexError", index |-> j, arr |-> arr]
                      ELSE IF Last(item) \in quote_list
                      THEN [status |-> "ok", index |-> j,
                            arr |-> SetLast(arr, FormatPair(Last(arr), item))]
                      ELSE QuoteLoop_KeepQuote(cl, j,
                               SetLast(arr, FormatPair(Last(arr), item)))
             ELSE QuoteLoop_KeepQuote(cl, j, arr)
    ELSE [status |-> "ok", index |-> index, arr |-> arr]

\* lines 512-524, "loop until trailing quote found"; index is the 1-based
\* position of the token last looked at; item[-1] of an empty token raises
\* IndexError
RECURSIVE QuoteLoop(_, _, _)
QuoteLoop(cl, index, arr) ==
    IF index <= Len(cl)
    THEN LET j == index + 1
         IN  IF j <= Len(cl)
             THEN LET item == cl[j]
                  IN  IF item = <<>>
                      THEN [status |-> "IndexError", index |-> j, arr |-> arr]
                      ELSE IF Last(item) \in quote_list
                      THEN [status |-> "ok", index |-> j,
                            arr |-> SetLast(arr,
                                FormatPair(Last(arr),
                                           SubSeq(item, 1, Len(item) - 1)))]
                      ELSE QuoteLoop(cl, j,
                               SetLast(arr, FormatPair(Last(arr), item)))
             ELSE QuoteLoop(cl, j, arr)
    ELSE [status |-> "ok", index |-> index, arr |-> arr]

\* lines 499-530: the outer loop; index is 1-based
RECURSIVE FixLoop(_, _, _)
FixLoop(cl, index, arr_fixed_line) ==
    IF index > Len(cl) THEN Return(arr_fixed_line)
    ELSE LET item == cl[index]
         IN  IF item \notin delimiter_list
             THEN IF item # <<>> /\ item[1] \in quote_list
                  THEN IF Last(item) \in quote_list
                       THEN FixLoop(cl, index + 1,
                                Append(arr_fixed_line,
                                       SubSeq(item, 2, Len(item) - 1)))
                       ELSE LET q == QuoteLoop(cl, index,
                                        Append(arr_fixed_line, Tail(item)))
                            IN  IF q.status # "ok" THEN Raise(q.status)
                                ELSE FixLoop(cl, q.index + 1, q.arr)
                  ELSE FixLoop(cl, index + 1, Append(arr_fixed_line, item))
             ELSE FixLoop(cl, index + 1, arr_fixed_line)

split_data_line(line, external_file, order) ==
    FixLoop(CleanLine(line, external_file, order), 1, <<>>)

Call_split_data_line ==
    /\ pc = "call"
    /\ pc' = "done"
    /\ op' = "split_data_line"
    /\ \E order \in DelimOrders :
          /\ clean_line' = CleanLine(input.line, input.external_file, order)
          /\ output' = split_data_line(input.line, input.external_file, order)
    /\ UNCHANGED <<input, iter_vars, file_vars>>

LineChars == {"a", "\"", "'", " ", ",", "\t"}

\* 'a "hello world" b'
ExampleQuoted ==
    <<"a", " ", "\"", "h", "e", "l", "l", "o", " ", "w", "o", "r", "l", "d",
      "\"", " ", "b">>
\* '1,2,,3'
ExampleCommas == <<"1", ",", "2", ",", ",", "3">>
\* 'x "a , b c'
ExampleUnclosed == <<"x", " ", "\"", "a", " ", ",", " ", "b", " ", "c">>

Lines ==
    SeqsUpTo(LineChars, MaxLineLen)
        \cup {ExampleQuoted, ExampleCommas, ExampleUnclosed}

InitSplit ==
    /\ IterUnused
    /\ FileUnused
    /\ pc = "call"
    /\ op = "none"
    /\ input \in [line : Lines, external_file : BOOLEAN]
    /\ clean_line = <<>>
    /\ output = NoCall

NextSplit == Call_split_data_line

SpecSplit == InitSplit /\ [][NextSplit]_vars

\* ------------------------------------------------------------------
\* the tokenization stated directly on character positions
Ordered(S) ==
    [k \in 1..Cardinality(S) |->
        CHOOSE x \in S : Cardinality({y \in S : y < x}) = k - 1]

Min(S) == CHOOSE x \in S : \A y \in S : x <= y
Max(S) == CHOOSE x \in S : \A y \in S : x >= y

\* the line without its leading and trailing whitespace
Trimmed(line) ==
    LET N == {i \in 1..Len(line) : line[i] \notin Whitespace}
    IN  IF N = {} THEN <<>> ELSE SubSeq(line, Min(N), Max(N))

\* the maximal runs of non-whitespace characters, in order
WSTokens(line) ==
    LET starts == {i \in 1..Len(line) :
                      /\ line[i] \notin Whitespace
                      /\ (i = 1 \/ line[i - 1] \in Whitespace)}
        end(i) == Min({j \in i..Len(line) :
                          j = Len(line) \/ line[j + 1] \in Whitespace})
        st == Ordered(starts)
    IN  [k \in 1..Len(st) |-> SubSeq(line, st[k], end(st[k]))]

\* the fields between the occurrences of the character d, empty ones included
FieldsOn(s, d) ==
    LET b == Ordered({i \in 1..Len(s) : s[i] = d} \cup {0, Len(s) + 1})
    IN  [k \in 1..(Len(b) - 1) |-> SubSeq(s, b[k] + 1, b[k + 1] - 1)]

\* the strings of ss joined by single spaces
RECURSIVE JoinSp(_)
JoinSp(ss) ==
    IF Len(ss) = 1 THEN ss[1] ELSE ss[1] \o <<" ">> \o JoinSp(Tail(ss))

EndsInQuote(t) == t # <<>> /\ t[Len(t)] \in quote_list
DropLast(t) == SubSeq(t, 1, Len(t) - 1)

\* the fields of a whitespace-split line as the specification describes them:
\* delimiter tokens are skipped, a token quoted at both ends loses its quotes,
\* a token that only begins with a quote opens a span that runs up to the
\* first following token ending in a quote, or to the end of the line
RECURSIVE ExpectedFields(_)
ExpectedFields(toks) ==
    IF toks = <<>> THEN <<>>
    ELSE LET t == Head(toks)
             rest == Tail(toks)
             closers == {j \in 1..Len(rest) : EndsInQuote(rest[j])}
         IN  IF t \in delimiter_list THEN ExpectedFields(rest)
             ELSE IF t[1] \notin quote_list THEN <<t>> \o ExpectedFields(rest)
             ELSE IF EndsInQuote(t)
                  THEN <<SubSeq(t, 2, Len(t) - 1)>> \o ExpectedFields(rest)
             ELSE IF closers = {}
                  THEN <<JoinSp(<<Tail(t)>> \o rest)>>
             ELSE LET j == Min(closers)
                  IN  <<JoinSp(<<Tail(t)>> \o SubSeq(rest, 1, j - 1)
                               \o <<DropLast(rest[j])>>)>>
                      \o ExpectedFields(SubSeq(rest, j + 1, Len(rest)))

\* C5: with external_file = false, a token that begins with a quote and does
\* not end with one opens a quoted span: the field is that token without its
\* leading quote joined by single spaces with every following token up to and
\* including the first one that ends in a quote (its trailing quote removed);
\* without such a token every remaining token is absorbed and no further
\* field is produced.  'a "hello world" b' gives ['a', 'hello world', 'b'].
C5_QuotedSpan ==
    (Called("split_data_line") /\ ~input.external_file) =>
        /\ output = Return(ExpectedFields(WSTokens(input.line)))
        /\ input.line = ExampleQuoted =>
              output.val = <<<<"a">>,
                             <<"h", "e", "l", "l", "o", " ", "w", "o", "r", "l", "d">>,
                             <<"b">>>>

\* the example line was split: a closed span between two plain fields
C5_Witness ==
    /\ Called("split_data_line")
    /\ ~input.external_file
    /\ input.line = ExampleQuoted
    /\ Len(output.val) = 3

\* an open span never closed absorbed a delimiter token and two more tokens
C5_WitnessUnclosed ==
    /\ Called("split_data_line")
    /\ ~input.external_file
    /\ input.line = ExampleUnclosed
    /\ output.val = <<<<"x">>, <<"a", " ", ",", " ", "b", " ", "c">>>>

\* number of fields a split of the trimmed line on d yields
FieldCount(line, d) ==
    Cardinality({i \in 1..Len(Trimmed(line)) : Trimmed(line)[i] = d}) + 1

\* the candidates that yield the greatest number of fields, provided that
\* number exceeds the whitespace-split token count
BestDelimiters(line) ==
    {d \in {",", "\t", " "} :
        /\ FieldCount(line, d) > Len(WSTokens(line))
        /\ \A d2 \in {",", "\t", " "} :
              FieldCount(line, d) >= FieldCount(line, d2)}

\* C6: with external_file = true the line is split on the candidate among
\* comma, tab and single space whose split of the trimmed line yields the
\* most fields, provided that is strictly more than the whitespace-split
\* count; otherwise the whitespace split is kept.  '1,2,,3' is split on comma
\* into 4 fields, one of them empty.
C6_BestDelimiter ==
    (Called("split_data_line") /\ input.external_file) =>
        /\ IF BestDelimiters(input.line) = {}
           THEN clean_line = WSTokens(input.line)
           ELSE \E d \in BestDelimiters(input.line) :
                   clean_line = FieldsOn(Trimmed(input.line), d)
        /\ input.line = ExampleCommas =>
              /\ clean_line = <<<<"1">>, <<"2">>, <<>>, <<"3">>>>
              /\ output = Return(<<<<"1">>, <<"2">>, <<>>, <<"3">>>>)

\* the comma example was split with external_file = true
C6_Witness ==
    /\ Called("split_data_line")
    /\ input.external_file
    /\ input.line = ExampleCommas
    /\ Len(clean_line) = 4

\* a line where no candidate beats the whitespace split: 'a\ta a'
C6_WitnessKeepWhitespace ==
    /\ Called("split_data_line")
    /\ input.external_file
    /\ input.line = <<"a", "\t", "a", " ", "a">>
    /\ clean_line = <<<<"a">>, <<"a">>, <<"a">>>>

\* C16: for every input line and both values of external_file,
\* split_data_line returns a list of string fields without raising; an empty
\* token inside an open quoted span is absorbed like any other token.
C16_SplitNeverRaises ==
    Called("split_data_line") =>
        /\ output.status = "ok"
        /\ \A i \in 1..Len(output.val) : Len(output.val[i]) >= 0

\* =================================================================
\* clean_numeric                                    (source lines 532-546)
\* =================================================================
numeric_chars ==
    {"0", "1", "2", "3", "4", "5", "6", "7", "8", "9", ".", "-"}  \* line 535

\* variant of the loop that runs only while both ends are non-numeric
RECURSIVE CleanLoop_BothEnds(_)
CleanLoop_BothEnds(text) ==
    IF text # <<>> /\ (Head(text) \notin numeric_chars
                          /\ Last(text) \notin numeric_chars)
    THEN LET t1 == IF Head(text) \notin numeric_chars THEN Tail(text) ELSE text
             t2 == IF t1 # <<>> /\ Last(t1) \notin numeric_chars
                   THEN SubSeq(t1, 1, Len(t1) - 1) ELSE t1
         IN  CleanLoop_BothEnds(t2)
    ELSE text

\* the while loop of lines 540-545
RECURSIVE CleanLoop(_)
CleanLoop(text) ==
    IF text # <<>> /\ (Head(text) \notin numeric_chars
                          \/ Last(text) \notin numeric_chars)
    THEN LET t1 == IF Head(text) \notin numeric_chars THEN Tail(text) ELSE text
             t2 == IF t1 # <<>> /\ Last(t1) \notin numeric_chars
                   THEN SubSeq(t1, 1, Len(t1) - 1) ELSE t1
         IN  CleanLoop(t2)
    ELSE text

\* the argument is always a str here, so the isinstance test of line 534 holds
clean_numeric(text) == IF text # <<>> THEN CleanLoop(text) ELSE text

Call_clean_numeric ==
    /\ pc = "call"
    /\ pc' = "done"
    /\ op' = "clean_numeric"
    /\ output' = Return(clean_numeric(input))
    /\ UNCHANGED <<input, clean_line, iter_vars, file_vars>>

TextChars == {"1", ".", "-", "x", " "}

\* '  -12.5xyz'
ExampleNumeric == <<" ", " ", "-", "1", "2", ".", "5", "x", "y", "z">>

Texts == SeqsUpTo(TextChars, MaxTextLen) \cup {ExampleNumeric}

InitClean ==
    /\ IterUnused
    /\ FileUnused
    /\ pc = "call"
    /\ op = "none"
    /\ input \in Texts
    /\ clean_line = <<>>
    /\ output = NoCall

NextClean == Call_clean_numeric

SpecClean == InitClean /\ [][NextClean]_vars

Digits == {"0", "1", "2", "3", "4", "5", "6", "7", "8", "9"}
UpperCase == <<"A", "B", "C", "D", "E", "F", "G", "H", "I", "J", "K", "L", "M",
               "N", "O", "P", "Q", "R", "S", "T", "U", "V", "W", "X", "Y", "Z">>
LowerCase == <<"a", "b", "c", "d", "e", "f", "g", "h", "i", "j", "k", "l", "m",
               "n", "o", "p", "q", "r", "s", "t", "u", "v", "w", "x", "y", "z">>

\* str.lower()
LowerChar(c) ==
    IF \E i \in 1..26 : UpperCase[i] = c
    THEN LowerCase[CHOOSE i \in 1..26 : UpperCase[i] = c]
    ELSE c
Lower(word) == [i \in 1..Len(word) |-> LowerChar(word[i])]

\* DatumUtil.is_int (lines 286-294): int(word) succeeds; for words over
\* letters, digits and '.' that is a non-empty run of digits
is_int(word) == word # <<>> /\ \A i \in 1..Len(word) : word[i] \in Digits

\* DatumUtil.is_float (lines 296-304): float(word) succeeds; for words over
\* letters, digits and '.' that is digits with at most one '.', one digit at
\* least
is_float(word) ==
    /\ \A i \in 1..Len(word) : word[i] \in Digits \cup {"."}
    /\ \E i \in 1..Len(word) : word[i] \in Digits
    /\ Cardinality({i \in 1..Len(word) : word[i] = "."}) <= 1

\* variant of the filter that lower-cases the words but keeps the numbers
RECURSIVE LowerWords_KeepNumbers(_)
LowerWords_KeepNumbers(arr_line) ==
    IF arr_line = <<>> THEN <<>>
    ELSE LET word == Head(arr_line)
         IN  (IF ~is_int(word) /\ ~is_float(word)
              THEN <<Lower(word)>> ELSE <<word>>)
             \o LowerWords_KeepNumbers(Tail(arr_line))

\* lines 8-12: arr_line_lower holds the non-numeric words only, lower-cased
RECURSIVE LowerWords(_)
LowerWords(arr_line) ==
    IF arr_line = <<>> THEN <<>>
    ELSE LET word == Head(arr_line)
         IN  (IF ~is_int(word) /\ ~is_float(word)
              THEN <<Lower(word)>> ELSE <<>>)
             \o LowerWords(Tail(arr_line))

NoKey == [none |-> TRUE, key |-> <<>>]      \* return None
SomeKey(key) == [none |-> FALSE, key |-> key]

\* lines 15-19: range(len(arr_line_lower), -1, -1)
RECURSIVE KeywordLoop(_, _, _)
KeywordLoop(arr_line_lower, num_words, keyword_dict) ==
    IF num_words < 0 THEN NoKey
    ELSE LET key == SubSeq(arr_line_lower, 1, num_words)
         IN  IF Len(key) > 0 /\ key \in keyword_dict
             THEN SomeKey(key)
             ELSE KeywordLoop(arr_line_lower, num_words - 1, keyword_dict)

\* keyword_dict is used for key membership only: it is the set of its keys
find_keyword(arr_line, keyword_dict) ==
    KeywordLoop(LowerWords(arr_line), Len(LowerWords(arr_line)), keyword_dict)

Call_find_keyword ==
    /\ pc = "call"
    /\ pc' = "done"
    /\ op' = "find_keyword"
    /\ output' = Return(find_keyword(input.arr_line, input.keyword_dict))
    /\ UNCHANGED <<input, clean_line, iter_vars, file_vars>>

\* the tokens of the enumerated lines: an upper-case word, a lower-case word,
\* an integer and a number that is a float only ('1.')
Tokens == {<<"A">>, <<"b">>, <<"1">>, <<"1", ".">>}
TokenLists == SeqsUpTo(Tokens, MaxToks)

\* the keys a dictionary is drawn from: tuples of one or two of these words
KeyWords == {<<"a">>, <<"b">>, <<"1">>}
Keys == [1..1 -> KeyWords] \cup [1..2 -> KeyWords]
KeywordDicts == {d \in SUBSET Keys : Cardinality(d) <= MaxDictSize}

\* find_keyword(['CONSTANT', '1.0'], {('constant',): KEY})
ExampleKeywordLine ==
    <<<<"C", "O", "N", "S", "T", "A", "N", "T">>, <<"1", ".", "0">>>>
ExampleKeywordDict == {<<<<"c", "o", "n", "s", "t", "a", "n", "t">>>>}

InitKeyword ==
    /\ IterUnused
    /\ FileUnused
    /\ pc = "call"
    /\ op = "none"
    /\ input \in [arr_line : TokenLists, keyword_dict : KeywordDicts]
                    \cup {[arr_line |-> ExampleKeywordLine,
                           keyword_dict |-> ExampleKeywordDict]}
    /\ clean_line = <<>>
    /\ output = NoCall

NextKeyword == Call_find_keyword

SpecKeyword == InitKeyword /\ [][NextKeyword]_vars

\* the non-empty prefixes of the sequence ws that are keys of the dictionary
PrefixLengths(ws, dict) == {n \in 1..Len(ws) : SubSeq(ws, 1, n) \in dict}

LongestPrefix(ws, dict) ==
    IF PrefixLengths(ws, dict) = {} THEN NoKey
    ELSE SomeKey(SubSeq(ws, 1, Max(PrefixLengths(ws, dict))))

IsNumeric(word) == is_int(word) \/ is_float(word)

\* the token sequence with its non-numeric tokens lower-cased
TokensLowered(arr_line) ==
    [i \in 1..Len(arr_line) |->
        IF IsNumeric(arr_line[i]) THEN arr_line[i] ELSE Lower(arr_line[i])]

\* the non-numeric tokens, lower-cased, in their original order
NonNumericLowered(arr_line) ==
    LET idx == Ordered({i \in 1..Len(arr_line) : ~IsNumeric(arr_line[i])})
    IN  [k \in 1..Len(idx) |-> Lower(arr_line[idx[k]])]

\* C7 as stated: find_keyword returns the longest non-empty contiguous prefix
\* of the token sequence (non-numeric tokens lower-cased) that is a key of
\* keyword_dict, and none when no non-empty prefix of the tokens is a key.
C7_LongestTokenPrefix ==
    Called("find_keyword") =>
        output.val = LongestPrefix(TokensLowered(input.arr_line),
                                   input.keyword_dict)

\* C7 as amended: find_keyword returns the longest non-empty prefix of the
\* sequence of the NON-NUMERIC tokens (numeric tokens removed, the others
\* lower-cased, order kept) that is a key of keyword_dict, and none when no
\* such prefix is a key; find_keyword(['CONSTANT','1.0'],
\* {('constant',): KEY}) returns ('constant',).
C7_LongestNonNumericPrefix ==
    Called("find_keyword") =>
        /\ output.val = LongestPrefix(NonNumericLowered(input.arr_line),
                                      input.keyword_dict)
        /\ (input.arr_line = ExampleKeywordLine
                /\ input.keyword_dict = ExampleKeywordDict)
              => output.val = SomeKey(<<<<"c", "o", "n", "s", "t", "a", "n", "t">>>>)

\* two prefixes are keys and a numeric token lies between the words:
\* ['A', '1', 'b'] with keys ('a',) and ('a', 'b') returns ('a', 'b')
C7_Witness ==
    /\ Called("find_keyword")
    /\ input.arr_line = <<<<"A">>, <<"1">>, <<"b">>>>
    /\ input.keyword_dict = {<<<<"a">>>>, <<<<"a">>, <<"b">>>>}
    /\ output.val = SomeKey(<<<<"a">>, <<"b">>>>)

\* =================================================================
\* FileIter                                         (source lines 650-689)
\* =================================================================
\* file.readline(): the next line with its newline, and the empty string at
\* the end of the file; the result is a str in every case, never None
ReadLine(lines, pos) ==
    IF pos < Len(lines)
    THEN [none |-> FALSE, text |-> lines[pos + 1] \o <<"\n">>]
    ELSE [none |-> FALSE, text |-> <<>>]

\* _next_line (lines 680-687) as a function of the fields it reads: the
\* values of file_pos, reads, eof and _current_data after the call
NextLine(lines, pos, rd, at_eof, data) ==
    IF at_eof
    THEN [pos |-> pos, reads |-> rd, eof |-> at_eof, data |-> data]
    ELSE LET data_line == ReadLine(lines, pos)
             new_pos == IF pos < Len(lines) THEN pos + 1 ELSE pos
         IN  IF data_line.none
             THEN [pos |-> new_pos, reads |-> 1 - rd, eof |-> TRUE,
                   data |-> data]
             ELSE [pos |-> new_pos, reads |-> 1 - rd, eof |-> FALSE,
                   data |-> SomeData(
                       split_data_line(data_line.text, FALSE,
                                       <<",", "\t", " ">>).val)]

\* __init__ (lines 651-659): a failed open sets eof, then the first line is
\* read
FileIter_init(lines, readable) ==
    LET r == NextLine(lines, 0, 0, ~readable, NoData)
    IN  /\ file_lines = lines
        /\ file_open = readable
        /\ file_pos = r.pos
        /\ reads = r.reads
        /\ eof = r.eof
        /\ current_data = r.data
        /\ data_index = 0

\* __next__, line 665-666: eof is set, StopIteration
FileIter_next_eof ==
    /\ fpc = "idle"
    /\ eof
    /\ file_stopped' = TRUE
    /\ UNCHANGED <<file_lines, file_open, file_pos, reads, eof, current_data,
                   data_index, fpc, tokens_out, iter_vars, call_vars>>

\* __next__, line 667: eof is not set, the while loop is entered
FileIter_next_begin ==
    /\ fpc = "idle"
    /\ ~eof
    /\ fpc' = "loop"
    /\ UNCHANGED <<file_lines, file_open, file_pos, reads, eof, current_data,
                   data_index, tokens_out, file_stopped, iter_vars, call_vars>>

\* __next__, lines 668-673: one iteration of the while loop
FileIter_next_loop ==
    /\ fpc = "loop"
    /\ ~current_data.none
    /\ data_index >= Len(current_data.toks)
    /\ LET r == NextLine(file_lines, file_pos, reads, eof, current_data)
       IN  /\ file_pos' = r.pos
           /\ reads' = r.reads
           /\ eof' = r.eof
           /\ current_data' = r.data
           /\ data_index' = 0
           /\ IF r.eof
              THEN fpc' = "idle" /\ file_stopped' = TRUE
              ELSE UNCHANGED <<fpc, file_stopped>>
    /\ UNCHANGED <<file_lines, file_open, tokens_out, iter_vars, call_vars>>

\* __next__, lines 674-675: the loop condition fails, the next token of the
\* current line is returned
FileIter_next_return ==
    /\ fpc = "loop"
    /\ ~(~current_data.none /\ data_index >= Len(current_data.toks))
    /\ ~current_data.none
    /\ data_index' = data_index + 1
    /\ tokens_out' = Append(tokens_out, current_data.toks[data_index + 1])
    /\ fpc' = "idle"
    /\ UNCHANGED <<file_lines, file_open, file_pos, reads, eof, current_data,
                   file_stopped, iter_vars, call_vars>>

FileChars == {"a", " "}
FileLines == SeqsUpTo(SeqsUpTo(FileChars, MaxFileLineLen), MaxFileLines)

InitFile ==
    /\ IterUnused
    /\ pc = "idle"
    /\ op = "none"
    /\ input = <<>>
    /\ clean_line = <<>>
    /\ output = NoCall
    /\ fpc = "idle"
    /\ tokens_out = <<>>
    /\ file_stopped = FALSE
    /\ \/ \E lines \in FileLines : FileIter_init(lines, TRUE)
       \/ FileIter_init(<<>>, FALSE)

NextFile ==
    \/ FileIter_next_eof
    \/ FileIter_next_begin
    \/ FileIter_next_loop
    \/ FileIter_next_return

SpecFile == InitFile /\ [][NextFile]_vars

\* the caller keeps calling next and a call that is running keeps running
SpecFileFair == SpecFile /\ WF_vars(NextFile)

\* the whitespace-separated tokens of the whole file, line by line
FileTokens(lines) == ConcatAll([i \in 1..Len(lines) |-> WSTokens(lines[i])])

IsPrefix(a, b) == Len(a) <= Len(b) /\ a = SubSeq(b, 1, Len(a))

\* C15: for a readable file, repeatedly calling next on a FileIter yields
\* the whitespace-separated tokens of the file in order, and then, after
\* finitely many steps, signals completion: completion is signalled only
\* after all tokens, every call of next that has started returns or signals
\* completion, and completion is eventually signalled.
C15_FileIterCompletes ==
    /\ [](file_open => IsPrefix(tokens_out, FileTokens(file_lines)))
    /\ []((file_open /\ file_stopped) => tokens_out = FileTokens(file_lines))
    /\ []((file_open /\ fpc = "loop") => <>(fpc = "idle"))
    /\ [](file_open => <>file_stopped)

\* =================================================================
\* TemplateGenerator, ArrayTemplateGenerator        (source lines 22-188)
\* =================================================================
\* Python's None where an optional argument or value is absent
\* (filler is a value of the type the argument has when it is given)
Absent(filler) == [given |-> FALSE, v |-> filler]
NoList == Absent(<<>>)
NoInt == Absent(0)
NoValue == Absent("None")
NoAuxVars == Absent([nested |-> FALSE, names |-> <<>>])
Given(v) == [given |-> TRUE, v |-> v]

\* the members of DataStorageType named in lines 56-63
DataStorageTypes == {"internal_array", "internal_constant", "external_file"}

\* build_type_header (lines 53-65) for an ArrayTemplateGenerator
build_type_header(type, data) ==
    IF type = "internal_array"
    THEN [header |-> "array", factor |-> "1.0", iprn |-> 1, filename |-> "-",
          data |-> data]
    ELSE IF type = "internal_constant"
    THEN [header |-> "constant", factor |-> "-", iprn |-> 0, filename |-> "-",
          data |-> data]
    ELSE IF type = "external_file"
    THEN [header |-> "external", factor |-> "1.0", iprn |-> 1, filename |-> "",
          data |-> [shape |-> <<>>, fill |-> "None"]]
    ELSE [header |-> "None", factor |-> "-", iprn |-> 0, filename |-> "-",
          data |-> [shape |-> <<>>, fill |-> "None"]]

\* _build_layer (lines 160-188); an array is its shape and its fill, np.empty
\* leaves the fill uninitialized
build_layer(data_type, data_storage_type, default_value, dimension_list, all_layers) ==
    LET shape == IF all_layers THEN dimension_list ELSE Tail(dimension_list)
        data ==
            IF data_storage_type = "internal_array"
            THEN IF ~default_value.given
                 THEN [shape |-> shape, fill |-> "uninitialized"]
                 ELSE [shape |-> shape, fill |-> default_value.v]
            ELSE IF data_storage_type = "internal_constant"
            THEN IF ~default_value.given
                 THEN [shape |-> <<>>,
                       fill |-> IF data_type = "int" THEN "0" ELSE "0.0"]
                 ELSE [shape |-> <<>>, fill |-> default_value.v]
            ELSE [shape |-> <<>>, fill |-> "None"]
    IN  build_type_header(data_storage_type, data)

\* lines 129-139: one template per layer
BuildLayers(datum_type, data_storage_type_list, default_value, dimension_list) ==
    [layer \in 1..dimension_list[1] |->
        build_layer(datum_type,
                    IF ~data_storage_type_list.given THEN "internal_array"
                    ELSE data_storage_type_list.v[layer],
                    default_value, dimension_list, FALSE)]

\* variant of the size test of lines 118-119 that never fails
WrongSize_Never(layered, data_storage_type_list, dimension_list) == FALSE

\* lines 116-119: the size of the list is tested for layered data of more
\* than one layer only
WrongSize(layered, data_storage_type_list, dimension_list) ==
    /\ layered /\ dimension_list[1] > 1
    /\ data_storage_type_list.given
    /\ Len(data_storage_type_list.v) # dimension_list[1]

\* ArrayTemplateGenerator.empty (lines 98-158); a is the record of the
\* arguments and of what the schema resolves for the path
ArrayTemplate_empty(a) ==
    IF WrongSize(a.layered, a.data_storage_type_list, a.dimension_list)
    THEN Raise("MFDataException")
    ELSE IF a.layered /\ a.dimension_list[1] > 1
            /\ a.data_storage_type_list.given
            /\ Len(a.data_storage_type_list.v) < a.dimension_list[1]
    THEN Raise("IndexError")                 \* data_storage_type_list[layer]
    ELSE IF a.layered /\ a.dimension_list[1] > 1
    THEN Return([transient |-> a.data_type = "array_transient",
                 layered |-> TRUE,
                 layers |-> BuildLayers(a.datum_type, a.data_storage_type_list,
                                        a.default_value, a.dimension_list)])
    ELSE IF a.data_storage_type_list.given
            /\ a.data_storage_type_list.v = <<>>
    THEN Raise("IndexError")                     \* data_storage_type_list[0]
    ELSE LET data_storage_type ==
                 IF ~a.data_storage_type_list.given
                    \/ a.data_storage_type_list.v[1] = "internal_array"
                 THEN "internal_array"
                 ELSE a.data_storage_type_list.v[1]
         IN  Return([transient |-> a.data_type = "array_transient",
                     layered |-> FALSE,
                     layers |-> <<build_layer(a.datum_type, data_storage_type,
                                              a.default_value,
                                              a.dimension_list, TRUE)>>])

Call_ArrayTemplate_empty ==
    /\ pc = "call"
    /\ input.gen = "array"
    /\ pc' = "done"
    /\ op' = "ArrayTemplateGenerator.empty"
    /\ output' = ArrayTemplate_empty(input)
    /\ UNCHANGED <<input, clean_line, iter_vars, file_vars>>

ArrayInputs ==
    [gen : {"array"},
     layered : BOOLEAN,
     data_storage_type_list :
         {NoList} \cup {Given(l) : l \in SeqsUpTo(DataStorageTypes, MaxStorageList)},
     default_value : {NoValue, Given("5")},
     dimension_list : [1..2 -> 1..MaxLayers],
     datum_type : {"int", "float"},
     data_type : {"array", "array_transient"}]

\* =================================================================
\* ListTemplateGenerator                           (source lines 191-282)
\* =================================================================
\* _build_template_data (lines 220-229): the placeholder of every field
RECURSIVE build_template_data(_)
build_template_data(type_list) ==
    IF type_list = <<>> THEN <<>>
    ELSE <<IF Head(type_list).type = "int" THEN "0"
           ELSE IF Head(type_list).type = "float" THEN "NaN"
           ELSE "None">>
         \o build_template_data(Tail(type_list))

\* lines 246-251: aux_vars is a list of names, or a list whose first element
\* is the list of names
AuxNames(aux_vars) ==
    IF ~aux_vars.given THEN <<>>
    ELSE aux_vars.v.names       \* aux_vars[0] when nested, aux_vars otherwise

\* lines 245-258: the type list the table is built with
BuildTypeList(a) ==
    LET with_aux ==
            a.type_list
                \o [i \in 1..Len(AuxNames(a.aux_vars)) |->
                       [name |-> AuxNames(a.aux_vars)[i], type |-> "object"]]
        with_bound ==
            IF a.boundnames
            THEN Append(with_aux, [name |-> "boundnames", type |-> "object"])
            ELSE with_aux
    IN  IF a.timeseries
        THEN [i \in 1..Len(with_bound) |->
                 [name |-> with_bound[i].name, type |-> "object"]]
        ELSE with_bound

\* lines 262-267: maxbound copies of the placeholder row, one without maxbound
RecArrayData(template_data, maxbound) ==
    IF maxbound.given THEN [i \in 1..maxbound.v |-> template_data]
                      ELSE <<template_data>>

\* np.rec.array(rec_array_data, type_list), line 268: numpy looks at
\* rec_array_data[0] to tell records from column arrays, which is IndexError
\* for an empty list
rec_array_of(rec_array_data, type_list) ==
    IF rec_array_data = <<>> THEN Raise("IndexError")
    ELSE Return([type_list |-> type_list, rows |-> rec_array_data])

\* the loop of lines 278-279: each deepcopy(rec_array) is a new table on the
\* heap, equal to the first, and the period maps to its position
RECURSIVE CopyLoop(_, _, _, _)

CopyLoop(stress_periods, i, template, heap) ==
    IF i > Len(stress_periods) THEN [map |-> template, heap |-> heap]
    ELSE CopyLoop(stress_periods, i + 1,
             [p \in DOMAIN template \cup {stress_periods[i]} |->
                 IF p = stress_periods[i] THEN Len(heap) + 1 ELSE template[p]],
             Append(heap, heap[1]))

\* ListTemplateGenerator.empty (lines 231-282); a is the record of the
\* arguments and of what the schema resolves for the path
ListTemplate_empty(a) ==
    LET type_list == BuildTypeList(a)
        rec_array == rec_array_of(
                         RecArrayData(build_template_data(type_list), a.maxbound),
                         type_list)
    IN  IF rec_array.status # "ok" THEN Raise(rec_array.status)
        ELSE IF a.data_type \in {"list_transient", "list_multiple"}
        THEN IF ~a.stress_periods.given
             THEN Return([kind |-> "dict", map |-> [p \in {0} |-> 1],
                          heap |-> <<rec_array.val>>])
             ELSE LET c == CopyLoop(a.stress_periods.v, 1, <<>>,
                                    <<rec_array.val>>)
                  IN  Return([kind |-> "dict", map |-> c.map, heap |-> c.heap])
        ELSE Return([kind |-> "table", map |-> <<>>,
                     heap |-> <<rec_array.val>>])

Call_ListTemplate_empty ==
    /\ pc = "call"
    /\ input.gen = "list"
    /\ pc' = "done"
    /\ op' = "ListTemplateGenerator.empty"
    /\ output' = ListTemplate_empty(input)
    /\ UNCHANGED <<input, clean_line, iter_vars, file_vars>>

\* the caller fills in one field of one row of the table of one period
ChangeRow ==
    /\ pc = "done"
    /\ op = "ListTemplateGenerator.empty"
    /\ output.status = "ok"
    /\ output.val.kind = "dict"
    /\ \E p \in DOMAIN output.val.map :
          \E r \in 1..Len(output.val.heap[output.val.map[p]].rows) :
             /\ output.val.heap[output.val.map[p]].rows[r] # <<>>
             /\ output' = [output EXCEPT
                    !.val.heap[output.val.map[p]].rows[r][1] = "changed"]
    /\ pc' = "changed"
    /\ UNCHANGED <<op, input, clean_line, iter_vars, file_vars>>

FieldTypes == {"int", "float", "object"}

\* the type lists build_type_list resolves: one or two fields
BaseTypeLists ==
    {<<[name |-> "f1", type |-> t]>> : t \in FieldTypes}
        \cup {<<[name |-> "f1", type |-> t1], [name |-> "f2", type |-> t2]>> :
                 t1 \in FieldTypes, t2 \in FieldTypes}

AuxVarsArgs ==
    {NoAuxVars,
     Given([nested |-> FALSE, names |-> <<>>]),
     Given([nested |-> FALSE, names |-> <<"conc">>]),
     Given([nested |-> TRUE, names |-> <<"conc", "temp">>])}

ListInputs ==
    [gen : {"list"},
     type_list : BaseTypeLists,
     aux_vars : AuxVarsArgs,
     boundnames : BOOLEAN,
     timeseries : BOOLEAN,
     maxbound : {NoInt} \cup {Given(n) : n \in 0..MaxBound},
     data_type : {"list", "list_transient", "list_multiple"},
     stress_periods :
         {NoList} \cup {Given(l) : l \in SeqsUpTo(0..1, MaxPeriods)}]

InitTemplate ==
    /\ IterUnused
    /\ FileUnused
    /\ pc = "call"
    /\ op = "none"
    /\ input \in ArrayInputs \cup ListInputs
    /\ clean_line = <<>>
    /\ output = NoCall

NextTemplate ==
    \/ Call_ArrayTemplate_empty
    \/ Call_ListTemplate_empty
    \/ ChangeRow

SpecTemplate == InitTemplate /\ [][NextTemplate]_vars

\* ------------------------------------------------------------------
\* a storage-kind list was given and its length differs from the layer count
ListSizeDiffers(a) ==
    /\ a.data_storage_type_list.given
    /\ Len(a.data_storage_type_list.v) # a.dimension_list[1]

\* C11 as stated: whenever a storage-kind list is given and its length
\* differs from the layer count of the resolved shape, the call ends in
\* MFDataException and no template is returned, for every value of the
\* layered flag and every layer count.
C11_WrongSizeAlwaysFails ==
    (Called("ArrayTemplateGenerator.empty") /\ ListSizeDiffers(input))
        => output = Raise("MFDataException")

\* C11 as amended: when layered is set and the resolved shape has more than
\* one layer, a given storage-kind list whose length differs from the layer
\* count ends the call in MFDataException and no template is returned; when
\* layered is not set or there is one layer only, the length is not compared
\* with the layer count: a non-empty list is accepted and its first entry
\* alone decides the storage kind, an empty list fails with IndexError.
\* MFDataException is raised in no other case.
C11_WrongSizeFailsWhenLayered ==
    Called("ArrayTemplateGenerator.empty") =>
        LET multi == input.layered /\ input.dimension_list[1] > 1
            l == input.data_storage_type_list.v
        IN  /\ (ListSizeDiffers(input) /\ multi)
                  => output = Raise("MFDataException")
            /\ (ListSizeDiffers(input) /\ ~multi /\ l # <<>>)
                  => /\ output.status = "ok"
                     /\ Len(output.val.layers) = 1
                     /\ output.val.layers[1].header =
                            IF l[1] = "internal_array" THEN "array"
                            ELSE IF l[1] = "internal_constant" THEN "constant"
                            ELSE "external"
            /\ (ListSizeDiffers(input) /\ ~multi /\ l = <<>>)
                  => output.status = "IndexError"
            /\ output.status = "MFDataException"
                  => (ListSizeDiffers(input) /\ multi)

\* layered data of three layers with a list of two storage kinds
C11_Witness ==
    /\ Called("ArrayTemplateGenerator.empty")
    /\ input.layered
    /\ input.dimension_list[1] = 3
    /\ input.data_storage_type_list.given
    /\ Len(input.data_storage_type_list.v) = 2
    /\ output = Raise("MFDataException")

\* the placeholder the claim gives field i of the table: None when timeseries
\* is set, 0 for an integer field, NaN for a float field, None for any other
\* field, every auxiliary field and the boundary-name field
ExpectedPlaceholder(a, i) ==
    IF a.timeseries THEN "None"
    ELSE IF i > Len(a.type_list) THEN "None"
    ELSE IF a.type_list[i].type = "int" THEN "0"
    ELSE IF a.type_list[i].type = "float" THEN "NaN"
    ELSE "None"

ExpectedFieldCount(a) ==
    Len(a.type_list)
        + (IF a.aux_vars.given THEN Len(a.aux_vars.v.names) ELSE 0)
        + (IF a.boundnames THEN 1 ELSE 0)

ExpectedRowCount(a) == IF a.maxbound.given THEN a.maxbound.v ELSE 1

\* C12: ListTemplateGenerator.empty produces a table with exactly maxbound
\* rows (1 row when maxbound is not given), all rows identical, every integer
\* field 0, every float field NaN, every other field (auxiliary and
\* boundary-name fields included) None, and every field None with timeseries.
C12_PlaceholderRows ==
    Called("ListTemplateGenerator.empty") =>
        /\ output.status = "ok"
        /\ \A h \in 1..Len(output.val.heap) :
              LET rows == output.val.heap[h].rows
              IN  /\ Len(rows) = ExpectedRowCount(input)
                  /\ \A r \in 1..Len(rows) :
                        /\ Len(rows[r]) = ExpectedFieldCount(input)
                        /\ \A i \in 1..Len(rows[r]) :
                              rows[r][i] = ExpectedPlaceholder(input, i)

\* the table of period p of a returned mapping
TableOf(out, p) == out.val.heap[out.val.map[p]]

\* the periods whose table holds a field the caller has filled in
ChangedPeriods(out) ==
    {p \in DOMAIN out.val.map :
        \E r \in 1..Len(TableOf(out, p).rows) :
            \E i \in 1..Len(TableOf(out, p).rows[r]) :
                TableOf(out, p).rows[r][i] = "changed"}

\* C13: for a transient or multi-valued datatype ListTemplateGenerator.empty
\* returns a mapping from period index to table: with a list of period
\* indices, one entry per listed period, the tables independent copies
\* (after the caller changes a row of one period's table, the table of every
\* other period is as it was returned); without a list, exactly one entry, at
\* period 0.  For any other datatype the bare table is returned.
C13_PeriodMapping ==
    /\ Called("ListTemplateGenerator.empty") =>
          /\ output.status = "ok"
          /\ IF input.data_type \in {"list_transient", "list_multiple"}
             THEN /\ output.val.kind = "dict"
                  /\ DOMAIN output.val.map =
                        IF input.stress_periods.given
                        THEN {input.stress_periods.v[i] :
                                 i \in 1..Len(input.stress_periods.v)}
                        ELSE {0}
                  /\ \A p, q \in DOMAIN output.val.map :
                        /\ TableOf(output, p) = TableOf(output, q)
                        /\ p # q => output.val.map[p] # output.val.map[q]
             ELSE output.val.kind = "table"
    /\ (pc = "changed" /\ op = "ListTemplateGenerator.empty") =>
          Cardinality(ChangedPeriods(output)) = 1
====
